---- MODULE Spec2Model ----
(***************************************************************************)
(* Model of the AST visualizer: the conversion of a TypeScript syntax tree *)
(* into the name/children/value hierarchy (utils/astToHierarchy.ts), the   *)
(* effect of the circle-packing visualization that consumes it             *)
(* (components/RingsVisualization.tsx, BlobVisualization.tsx) and the      *)
(* per-node label callback of that effect; and the App around it (App.tsx) *)
(* with its preset dropdown (components/CustomSelect.tsx) and its editor   *)
(* (components/CodeEditor.tsx).                                            *)
(***************************************************************************)
EXTENDS Integers, Sequences, FiniteSets, TLC

VARIABLES
  ast,            \* the ts.SourceFile handed to the visualization (the ast prop)
  node,           \* the argument of the last direct astToHierarchy call
  hierarchyNode,  \* what that call returned
  hierarchyData,  \* effect local: astRootToHierarchy(ast)
  root,           \* effect local: d3.hierarchy(hierarchyData) after root.sum
  nodes,          \* effect local: root.descendants(), one drawn circle each
  d,              \* the positioned node the label callback is called with
  texts,          \* the label texts the callback appended to the drawing
  circles,        \* the circle elements in the svg, kept between effect runs
  removed,        \* how many elements the last effect run removed first
  sourceCode,     \* App state: the text in the editor
  vizMode,        \* App state: "nodes" or "rings"
  parseResult,    \* App render: parseCode(sourceCode)
  mounted,        \* App render: the child shown in the visualization pane
  effectPending,  \* the visualization's effect is due (mount or new ast)
  selectedExample,          \* App state: the value shown in the dropdown
  doc,                      \* CodeEditor: viewRef.current.state.doc
  selection,                \* CodeEditor: state.selection.main, anchor and head
  hoveredNode,              \* App state: the node hovered in ASTNodes, or null
  capturedSelectedExample,  \* selectedExample in the closure of the onChange
                            \* the editor's update listener was created with
  valuePending,             \* CodeEditor: the [value] effect is due
  hoverPending,             \* CodeEditor: the [hoveredNode] effect is due
  dispatched,               \* what the last run of an editor effect dispatched
  isOpen,                   \* CustomSelect state: the menu is shown
  listening,                \* the document has the mousedown listener
  openPending,              \* CustomSelect: the [isOpen] effect is due
  onChangeCalls,            \* the values the last dropdown event passed to onChange
  event                     \* the last DOM event the dropdown handled

appVars == <<sourceCode, vizMode, parseResult, mounted, effectPending>>

editorVars == <<doc, selection, hoveredNode, capturedSelectedExample,
                valuePending, hoverPending, dispatched>>

selectVars == <<isOpen, listening, openPending, onChangeCalls, event>>

vars == <<ast, node, hierarchyNode, hierarchyData, root, nodes, d, texts,
          circles, removed, appVars, selectedExample, editorVars, selectVars>>

\* A JavaScript variable that has not been assigned.
undefined == [undefined |-> TRUE]

\* The JavaScript value null.
null == [null |-> TRUE]

\* The editor and the dropdown in a specification that does not follow them:
\* no document, nothing hovered, no effect due, the menu closed.
NoEditor ==
  /\ doc = undefined
  /\ selection = undefined
  /\ hoveredNode = null
  /\ valuePending = FALSE
  /\ hoverPending = FALSE
  /\ dispatched = "none"

\* CustomSelect after mounting: useState(false), and the [isOpen] effect has
\* run without registering a listener.
CustomSelectMounted ==
  /\ isOpen = FALSE
  /\ listening = FALSE
  /\ openPending = FALSE
  /\ onChangeCalls = <<>>
  /\ event = "none"

(***************************************************************************)
(* Bounds                                                                  *)
(***************************************************************************)
\* Most syntax-tree nodes below the SourceFile root.
MaxNodes == 4

(***************************************************************************)
(* ts.SyntaxKind: the discriminants the converter distinguishes, with the  *)
(* numbering the repository documents (Identifier = 80, BinaryExpression = *)
(* 226), and the reverse mapping ts.SyntaxKind[kind].                      *)
(***************************************************************************)
EndOfFileToken == 1
NumericLiteral == 9
StringLiteral == 11
PlusToken == 40
Identifier == 80
LastToken == 165
PropertyAccessExpression == 211
CallExpression == 213
BinaryExpression == 226
Block == 241
VariableStatement == 243
ExpressionStatement == 244
VariableDeclaration == 259
VariableDeclarationList == 260
FunctionDeclaration == 261
SourceFile == 312

\* ts.SyntaxKind[kind]: the enum's reverse mapping. Where the enum declares a
\* range marker with the same number after the member (FirstLiteralToken =
\* NumericLiteral, FirstStatement = VariableStatement) the marker's name is
\* the one the reverse mapping holds.
SyntaxKindName(kind) ==
  CASE kind = EndOfFileToken -> "EndOfFileToken"
    [] kind = NumericLiteral -> "FirstLiteralToken"
    [] kind = StringLiteral -> "StringLiteral"
    [] kind = PlusToken -> "PlusToken"
    [] kind = Identifier -> "Identifier"
    [] kind = PropertyAccessExpression -> "PropertyAccessExpression"
    [] kind = CallExpression -> "CallExpression"
    [] kind = BinaryExpression -> "BinaryExpression"
    [] kind = Block -> "Block"
    [] kind = VariableStatement -> "FirstStatement"
    [] kind = ExpressionStatement -> "ExpressionStatement"
    [] kind = VariableDeclaration -> "VariableDeclaration"
    [] kind = VariableDeclarationList -> "VariableDeclarationList"
    [] kind = FunctionDeclaration -> "FunctionDeclaration"
    [] kind = SourceFile -> "SourceFile"

isIdentifier(n) == n.kind = Identifier
isNumericLiteral(n) == n.kind = NumericLiteral
isStringLiteral(n) == n.kind = StringLiteral
isToken(n) == n.kind >= 0 /\ n.kind <= LastToken

(***************************************************************************)
(* Syntax trees.  A node is a record with its kind, its text when it is an *)
(* identifier or a literal, and the children ts.forEachChild visits, in    *)
(* visiting order.  A SourceFile holds its statements and the end-of-file  *)
(* token the parser appends.                                               *)
(***************************************************************************)
TextTokens ==
  { [kind |-> Identifier, text |-> "x", children |-> <<>>],
    [kind |-> NumericLiteral, text |-> "42", children |-> <<>>],
    [kind |-> StringLiteral, text |-> "hi", children |-> <<>>] }

PlainTokens ==
  { [kind |-> PlusToken, children |-> <<>>],
    [kind |-> EndOfFileToken, children |-> <<>>] }

Tokens == TextTokens \cup PlainTokens

ExpressionKinds == {BinaryExpression}
StatementKinds == {VariableStatement, ExpressionStatement}

RECURSIVE TreesOfSize(_, _, _), ForestsOfSize(_, _, _)
\* The trees of exactly n nodes: a member of leaves, or a node of a kind in
\* kinds over tokens and expressions.
TreesOfSize(n, kinds, leaves) ==
  IF n = 0 THEN {}
  ELSE (IF n = 1 THEN leaves ELSE {}) \cup
       { [kind |-> k, children |-> f] :
           k \in kinds, f \in ForestsOfSize(n - 1, ExpressionKinds, Tokens) }

\* The sequences of such trees with exactly n nodes in total.
ForestsOfSize(n, kinds, leaves) ==
  IF n = 0 THEN { <<>> }
  ELSE UNION { { <<t>> \o f :
                   t \in TreesOfSize(k, kinds, leaves),
                   f \in ForestsOfSize(n - k, kinds, leaves) } : k \in 1..n }

\* What ts.createSourceFile can return: statements of up to MaxNodes nodes
\* in total, followed by the end-of-file token.
SourceFiles ==
  { [kind |-> SourceFile,
     statements |-> s,
     endOfFileToken |-> [kind |-> EndOfFileToken, children |-> <<>>]] :
       s \in UNION { ForestsOfSize(n, StatementKinds, {}) : n \in 0..MaxNodes } }

\* ts.forEachChild(n, cb) with a callback that returns undefined: every
\* child is visited, in order.
forEachChild(n) ==
  IF n.kind = SourceFile
  THEN n.statements \o << n.endOfFileToken >>
  ELSE n.children

RECURSIVE SubNodes(_)
\* The node and everything below it.
SubNodes(n) ==
  {n} \cup UNION { SubNodes(forEachChild(n)[i]) : i \in 1..Len(forEachChild(n)) }

(***************************************************************************)
(* utils/astToHierarchy.ts                                                 *)
(***************************************************************************)
\* nodeName with the literal labels built from the kind name instead of
\* the fixed prefixes.
nodeNameFromKindName(n) ==
  LET kindName == SyntaxKindName(n.kind)
  IN  IF isIdentifier(n) \/ isNumericLiteral(n) THEN kindName \o ": " \o n.text
      ELSE IF isStringLiteral(n) THEN kindName \o ": \"" \o n.text \o "\""
      ELSE kindName

\* nodeName that starts from an empty label and has no final default, so
\* that only tokens get a name.
nodeNameWithoutDefault(n) ==
  LET kindName == SyntaxKindName(n.kind)
  IN  IF isIdentifier(n) THEN "Identifier: " \o n.text
      ELSE IF isNumericLiteral(n) THEN "NumericLiteral: " \o n.text
      ELSE IF isStringLiteral(n) THEN "StringLiteral: \"" \o n.text \o "\""
      ELSE IF isToken(n) /\ n.kind # EndOfFileToken THEN kindName
      ELSE ""

\* Lines 15-31: the label.
nodeName(n) ==
  LET kindName == SyntaxKindName(n.kind)
  IN  IF isIdentifier(n) THEN "Identifier: " \o n.text
      ELSE IF isNumericLiteral(n) THEN "NumericLiteral: " \o n.text
      ELSE IF isStringLiteral(n) THEN "StringLiteral: \"" \o n.text \o "\""
      ELSE IF isToken(n) /\ n.kind # EndOfFileToken THEN kindName
      ELSE kindName

\* skipChild that also drops operator tokens as noise.
skipChildAndOperators(child) ==
  child.kind = EndOfFileToken \/ child.kind = PlusToken

\* skipChild comparing against the wrong kind, so that nothing is skipped.
skipChildWrongKind(child) == child.kind = SourceFile

\* Line 38: the callback returns without pushing for this child.
skipChild(child) == child.kind = EndOfFileToken

\* buildHierarchyNode that always assigns the children array.
buildHierarchyNodeAlwaysChildren(name, syntaxKind, children) ==
  [name |-> name, syntaxKind |-> syntaxKind, value |-> 1, children |-> children]

\* buildHierarchyNode that leaves out the optional syntaxKind.
buildHierarchyNodeWithoutKind(name, syntaxKind, children) ==
  IF Len(children) > 0
  THEN [name |-> name, value |-> 1, children |-> children]
  ELSE [name |-> name, value |-> 1]

\* Lines 46-56: the node, with children only when there are some.
buildHierarchyNode(name, syntaxKind, children) ==
  IF Len(children) > 0
  THEN [name |-> name, syntaxKind |-> syntaxKind, value |-> 1, children |-> children]
  ELSE [name |-> name, syntaxKind |-> syntaxKind, value |-> 1]

RECURSIVE astToHierarchy(_)
astToHierarchy(n) ==
  LET visited == forEachChild(n)
      kept == SelectSeq(visited, LAMBDA child : ~skipChild(child))
      children == [i \in 1..Len(kept) |-> astToHierarchy(kept[i])]
  IN  buildHierarchyNode(nodeName(n), n.kind, children)

\* astRootToHierarchy without the single-statement shortcut.
astRootToHierarchyAlwaysWraps(sourceFile) ==
  [name |-> "Program",
   syntaxKind |-> SourceFile,
   value |-> 1,
   children |-> [i \in 1..Len(sourceFile.statements) |->
                   astToHierarchy(sourceFile.statements[i])]]

\* astRootToHierarchy collecting the statements last to first.
astRootToHierarchyReversed(sourceFile) ==
  IF Len(sourceFile.statements) = 1
  THEN astToHierarchy(sourceFile.statements[1])
  ELSE [name |-> "Program",
        syntaxKind |-> SourceFile,
        value |-> 1,
        children |-> [i \in 1..Len(sourceFile.statements) |->
                        astToHierarchy(sourceFile.statements[
                          Len(sourceFile.statements) + 1 - i])]]

\* astRootToHierarchy building the synthetic root the way astToHierarchy
\* builds a node, children only when there are some.
astRootToHierarchyOmitsEmpty(sourceFile) ==
  IF Len(sourceFile.statements) = 1
  THEN astToHierarchy(sourceFile.statements[1])
  ELSE buildHierarchyNode("Program", SourceFile,
         [i \in 1..Len(sourceFile.statements) |->
            astToHierarchy(sourceFile.statements[i])])

astRootToHierarchy(sourceFile) ==
  IF Len(sourceFile.statements) = 1
  THEN astToHierarchy(sourceFile.statements[1])
  ELSE [name |-> "Program",
        syntaxKind |-> SourceFile,
        value |-> 1,
        children |-> [i \in 1..Len(sourceFile.statements) |->
                        astToHierarchy(sourceFile.statements[i])]]

(***************************************************************************)
(* d3-hierarchy as the visualization uses it                               *)
(***************************************************************************)
RECURSIVE hierarchyKeepsEmptyArray(_, _)
\* hierarchy that makes a node internal whenever its data has a children
\* array, empty or not.
hierarchyKeepsEmptyArray(data, depth) ==
  IF "children" \in DOMAIN data
  THEN [data |-> data, depth |-> depth,
        children |-> [i \in 1..Len(data.children) |->
                        hierarchyKeepsEmptyArray(data.children[i], depth + 1)]]
  ELSE [data |-> data, depth |-> depth]

RECURSIVE hierarchy(_, _)
\* d3.hierarchy(data) with the default children accessor (d.children when
\* it is an array): a node gets a children field only when the accessor
\* yields a non-empty array.
hierarchy(data, depth) ==
  IF "children" \in DOMAIN data /\ Len(data.children) > 0
  THEN [data |-> data, depth |-> depth,
        children |-> [i \in 1..Len(data.children) |->
                        hierarchy(data.children[i], depth + 1)]]
  ELSE [data |-> data, depth |-> depth]

\* The accessor passed to root.sum: d => d.value || 1.
sumAccessor(data) ==
  IF "value" \in DOMAIN data /\ data.value # 0 THEN data.value ELSE 1

RECURSIVE SeqSum(_)
SeqSum(s) == IF s = <<>> THEN 0 ELSE Head(s) + SeqSum(Tail(s))

RECURSIVE sumOfLeaves(_)
\* sum that gives an internal node the values of its children only.
sumOfLeaves(n) ==
  IF "children" \in DOMAIN n
  THEN LET kids == [i \in 1..Len(n.children) |-> sumOfLeaves(n.children[i])]
       IN  [data |-> n.data, depth |-> n.depth, children |-> kids,
            value |-> SeqSum([i \in 1..Len(kids) |-> kids[i].value])]
  ELSE [data |-> n.data, depth |-> n.depth, value |-> sumAccessor(n.data)]

RECURSIVE sum(_)
\* root.sum(value): every node's value becomes value(node.data) plus the
\* values of its children.
sum(n) ==
  IF "children" \in DOMAIN n
  THEN LET kids == [i \in 1..Len(n.children) |-> sum(n.children[i])]
       IN  [data |-> n.data, depth |-> n.depth, children |-> kids,
            value |-> sumAccessor(n.data) + SeqSum([i \in 1..Len(kids) |-> kids[i].value])]
  ELSE [data |-> n.data, depth |-> n.depth, value |-> sumAccessor(n.data)]

RECURSIVE breadthFirst(_)
breadthFirst(queue) ==
  IF queue = <<>> THEN <<>>
  ELSE LET n == Head(queue)
       IN  <<n>> \o breadthFirst(Tail(queue) \o
                     (IF "children" \in DOMAIN n THEN n.children ELSE <<>>))

RECURSIVE leavesOf(_)
\* root.leaves() in place of root.descendants(): the nodes without children.
leavesOf(n) ==
  IF "children" \in DOMAIN n
  THEN LET RECURSIVE cat(_)
           cat(i) == IF i > Len(n.children) THEN <<>>
                     ELSE leavesOf(n.children[i]) \o cat(i + 1)
       IN  cat(1)
  ELSE <<n>>

\* root.descendants(): the node and all nodes below it, breadth first.
descendants(n) == breadthFirst(<<n>>)

(***************************************************************************)
(* components/RingsVisualization.tsx (BlobVisualization.tsx has the same   *)
(* effect with other colours)                                              *)
(***************************************************************************)
width == 800
height == 600
margin == 20
\* Index of the deepest level a label is drawn at in the label callback.
MaxDepth == 6

\* getFontSize without the lower limit.
getFontSizeWithoutFloor(depth) == 40 - (depth * 3)

getFontSize(depth) ==
  LET baseSize == 40 - (depth * 3)
      minSize == 24
  IN  IF baseSize > minSize THEN baseSize ELSE minSize

\* Lines 45-48: the padding of the packing.
maxFontSize == getFontSize(0)
padding == maxFontSize

\* String.prototype.slice(0, end): a negative end counts from the end of
\* the string, an end beyond the string stops at its end.
slice0(str, end) ==
  LET e == IF end < 0
           THEN (IF Len(str) + end > 0 THEN Len(str) + end ELSE 0)
           ELSE (IF end < Len(str) THEN end ELSE Len(str))
  IN  SubSeq(str, 1, e)

\* Math.floor((arcRadius * Math.PI) / (fontSize * 0.6)) for whole radii,
\* with pi taken as 355/113.
maxCharsOf(arcRadius, fontSize) ==
  (arcRadius * 355 * 10) \div (fontSize * 6 * 113)

\* truncate that keeps maxChars characters before the marker.
truncateToMaxChars(label, maxChars) ==
  IF Len(label) > maxChars THEN slice0(label, maxChars) \o "..." ELSE label

\* label.length > maxChars ? label.slice(0, maxChars - 2) + '...' : label
truncate(label, maxChars) ==
  IF Len(label) > maxChars THEN slice0(label, maxChars - 2) \o "..." ELSE label

(***************************************************************************)
(* Specification of the converter and the effect                           *)
(***************************************************************************)
\* The visualization alone, mounted with some parse result as its prop.
Init ==
  /\ ast \in SourceFiles
  /\ node = undefined
  /\ hierarchyNode = undefined
  /\ hierarchyData = undefined
  /\ root = undefined
  /\ nodes = <<>>
  /\ d = undefined
  /\ texts = <<>>
  /\ circles = <<>>
  /\ removed = 0
  /\ sourceCode = undefined
  /\ selectedExample = undefined
  /\ capturedSelectedExample = undefined
  /\ NoEditor
  /\ CustomSelectMounted
  /\ vizMode = "rings"
  /\ parseResult = [success |-> TRUE, ast |-> ast]
  /\ mounted = "RingsVisualization"
  /\ effectPending = TRUE

\* CallAstToHierarchy that takes the statements out of the source file it
\* converts.
CallAstToHierarchyConsuming ==
  \E n \in SubNodes(ast) :
    /\ node' = n
    /\ hierarchyNode' = astToHierarchy(n)
    /\ ast' = IF n = ast THEN [ast EXCEPT !.statements = <<>>] ELSE ast
    /\ UNCHANGED <<hierarchyData, root, nodes, d, texts, circles, removed, appVars,
                   selectedExample, editorVars, selectVars>>

\* A direct call astToHierarchy(n) on a node of the parsed tree.
CallAstToHierarchy ==
  \E n \in SubNodes(ast) :
    /\ node' = n
    /\ hierarchyNode' = astToHierarchy(n)
    /\ UNCHANGED <<ast, hierarchyData, root, nodes, d, texts, circles, removed, appVars,
                   selectedExample, editorVars, selectVars>>

\* clearPrevious that removes nothing.
clearPreviousKeepsAll(content) == content

\* d3.select(svgRef.current).selectAll('*').remove(): what is left of the
\* svg's content.
clearPrevious(content) == <<>>

\* The circle appended for a positioned node, with its tooltip.
circleOf(n) == [title |-> n.data.name, depth |-> n.depth]

\* The effect of the visualization, run after a mount and after every
\* render with a new ast prop: the previous drawing is removed, the
\* hierarchy is rebuilt and summed, and one circle is drawn per descendant.
\* The radii come from d3.pack, which is not part of the repository; the
\* label each circle gets for its radius is the subject of LabelCallback
\* below.
VisualizationEffect ==
  LET data == astRootToHierarchy(ast)
      r == sum(hierarchy(data, 0))
      kept == clearPrevious(circles)
  IN  /\ mounted = "RingsVisualization"
      /\ effectPending
      /\ hierarchyData' = data
      /\ root' = r
      /\ nodes' = descendants(r)
      /\ removed' = Len(circles) - Len(kept)
      /\ circles' = kept \o [i \in 1..Len(nodes') |-> circleOf(nodes'[i])]
      /\ effectPending' = FALSE
      /\ UNCHANGED <<ast, node, hierarchyNode, d, texts,
                     sourceCode, vizMode, parseResult, mounted,
                     selectedExample, editorVars, selectVars>>

Next == CallAstToHierarchy \/ VisualizationEffect

Spec == Init /\ [][Next]_vars

(***************************************************************************)
(* examples.ts and App.tsx: the preset examples and the two handlers       *)
(***************************************************************************)
\* examples.ts: the preset list, in order, every code with its line breaks.
\* A backquote inside a code, which a TLA+ string cannot hold, is written as
\* an apostrophe.
examples == <<
  [name |-> "Hello World",
   code |->
     "function greet() {\n"
     \o "  console.log(\"Hello, World!\");\n"
     \o "}"],
  [name |-> "Generic Arrow Function",
   code |->
     "/**\n"
     \o " * TSX Parser Quirk: Generic Arrow Functions\n"
     \o " *\n"
     \o " * Arrow function generics need a trailing comma in TSX mode.\n"
     \o " * Without it: <T> looks like a JSX opening tag!\n"
     \o " *\n"
     \o " * Try removing the comma to see how the AST changes.\n"
     \o " */\n"
     \o "\n"
     \o "const identity = <T,>(x: T): T => x;\n"
     \o "\n"
     \o "const result = identity<string>(\"hello\");"],
  [name |-> "Type Definitions",
   code |->
     "/**\n"
     \o " * Type Definitions\n"
     \o " *\n"
     \o " * Interfaces and type aliases create structure for complex data.\n"
     \o " * Notice how the parser handles generic type parameters.\n"
     \o " */\n"
     \o "\n"
     \o "interface User {\n"
     \o "  id: number;\n"
     \o "  name: string;\n"
     \o "  email: string;\n"
     \o "  roles: string[];\n"
     \o "}\n"
     \o "\n"
     \o "type ApiResponse<T> = {\n"
     \o "  data: T;\n"
     \o "  status: number;\n"
     \o "  error?: string;\n"
     \o "};"],
  [name |-> "API Handler",
   code |->
     "/**\n"
     \o " * API Handler with Error Handling\n"
     \o " *\n"
     \o " * Production pattern: async function with try/catch blocks.\n"
     \o " * Notice the nested structure of the try/catch AST nodes.\n"
     \o " */\n"
     \o "\n"
     \o "async function fetchUser(userId: string) {\n"
     \o "  try {\n"
     \o "    const response = await fetch('/api/users/${userId}');\n"
     \o "\n"
     \o "    if (!response.ok) {\n"
     \o "      throw new Error('HTTP error: ${response.status}');\n"
     \o "    }\n"
     \o "\n"
     \o "    const data = await response.json();\n"
     \o "    return data;\n"
     \o "  } catch (error) {\n"
     \o "    console.error(\"Failed to fetch user:\", error);\n"
     \o "    throw error;\n"
     \o "  }\n"
     \o "}"],
  [name |-> "Switch/Case Router",
   code |->
     "/**\n"
     \o " * Switch Statement Router\n"
     \o " *\n"
     \o " * State machine pattern using switch/case for action handling.\n"
     \o " * Each case creates a separate branch in the AST.\n"
     \o " */\n"
     \o "\n"
     \o "function handleAction(action: string, payload: any) {\n"
     \o "  switch (action) {\n"
     \o "    case \"LOGIN\":\n"
     \o "      return authenticateUser(payload);\n"
     \o "\n"
     \o "    case \"LOGOUT\":\n"
     \o "      return clearSession();\n"
     \o "\n"
     \o "    case \"UPDATE_PROFILE\":\n"
     \o "      return updateUserProfile(payload);\n"
     \o "\n"
     \o "    case \"DELETE_ACCOUNT\":\n"
     \o "      if (payload.confirmed) {\n"
     \o "        return deleteUser();\n"
     \o "      }\n"
     \o "      return { error: \"Confirmation required\" };\n"
     \o "\n"
     \o "    default:\n"
     \o "      return { error: \"Unknown action\" };\n"
     \o "  }\n"
     \o "}"],
  [name |-> "FizzBuzz: Imperative",
   code |->
     "/**\n"
     \o " * FizzBuzz: Imperative Style\n"
     \o " *\n"
     \o " * Classic approach with deep nesting through if/else chains.\n"
     \o " * Notice the nested IfStatement and Block nodes in the tree.\n"
     \o " */\n"
     \o "\n"
     \o "function fizzBuzz(n: number) {\n"
     \o "  for (let i = 1; i <= n; i++) {\n"
     \o "    if (i % 15 === 0) {\n"
     \o "      console.log(\"FizzBuzz\");\n"
     \o "    } else if (i % 3 === 0) {\n"
     \o "      console.log(\"Fizz\");\n"
     \o "    } else if (i % 5 === 0) {\n"
     \o "      console.log(\"Buzz\");\n"
     \o "    } else {\n"
     \o "      console.log(i);\n"
     \o "    }\n"
     \o "  }\n"
     \o "}"],
  [name |-> "FizzBuzz: Functional",
   code |->
     "/**\n"
     \o " * FizzBuzz: Functional Style\n"
     \o " *\n"
     \o " * Expression-heavy approach using array methods and ternary operators.\n"
     \o " * Compare this flatter structure to the imperative version's deep nesting.\n"
     \o " */\n"
     \o "\n"
     \o "const fizzBuzz = (n: number) =>\n"
     \o "  Array.from({ length: n }, (_, i) => i + 1)\n"
     \o "    .map(i =>\n"
     \o "      i % 15 === 0 ? \"FizzBuzz\" :\n"
     \o "      i % 3 === 0 ? \"Fizz\" :\n"
     \o "      i % 5 === 0 ? \"Buzz\" :\n"
     \o "      i\n"
     \o "    )\n"
     \o "    .forEach(x => console.log(x));"],
  [name |-> "FizzBuzz: Composable",
   code |->
     "/**\n"
     \o " * FizzBuzz: Composable Style\n"
     \o " *\n"
     \o " * Small, focused functions composed together for clarity.\n"
     \o " * Notice how multiple FunctionDeclarations create separate subtrees.\n"
     \o " */\n"
     \o "\n"
     \o "function isDivisibleBy(n: number) {\n"
     \o "  return (x: number) => x % n === 0;\n"
     \o "}\n"
     \o "\n"
     \o "function fizzBuzzValue(i: number): string | number {\n"
     \o "  const div3 = isDivisibleBy(3)(i);\n"
     \o "  const div5 = isDivisibleBy(5)(i);\n"
     \o "\n"
     \o "  if (div3 && div5) return \"FizzBuzz\";\n"
     \o "  if (div3) return \"Fizz\";\n"
     \o "  if (div5) return \"Buzz\";\n"
     \o "  return i;\n"
     \o "}\n"
     \o "\n"
     \o "function fizzBuzz(n: number) {\n"
     \o "  for (let i = 1; i <= n; i++) {\n"
     \o "    console.log(fizzBuzzValue(i));\n"
     \o "  }\n"
     \o "}"],
  [name |-> "React Component",
   code |->
     "/**\n"
     \o " * React Component with JSX\n"
     \o " *\n"
     \o " * JSX syntax creates JsxElement nodes in the AST.\n"
     \o " * See how <button> becomes structured JsxOpeningElement/JsxClosingElement.\n"
     \o " */\n"
     \o "\n"
     \o "interface ButtonProps {\n"
     \o "  label: string;\n"
     \o "  onClick: () => void;\n"
     \o "  variant?: \"primary\" | \"secondary\";\n"
     \o "}\n"
     \o "\n"
     \o "function Button({ label, onClick, variant = \"primary\" }: ButtonProps) {\n"
     \o "  return (\n"
     \o "    <button\n"
     \o "      className={'btn btn-${variant}'}\n"
     \o "      onClick={onClick}\n"
     \o "    >\n"
     \o "      {label}\n"
     \o "    </button>\n"
     \o "  );\n"
     \o "}"]
>>

\* examples.find((ex) => ex.name === exampleName): the first example of
\* that name, or undefined.
findByName(exampleName) ==
  LET found == { i \in 1..Len(examples) : examples[i].name = exampleName }
  IN  IF found = {} THEN undefined
      ELSE examples[CHOOSE i \in found : \A j \in found : i <= j]

\* examples.find((ex) => ex.code === newCode): the first example of that
\* code, or undefined.
findByCode(newCode) ==
  LET found == { i \in 1..Len(examples) : examples[i].code = newCode }
  IN  IF found = {} THEN undefined
      ELSE examples[CHOOSE i \in found : \A j \in found : i <= j]

\* afterHandleExampleChange that sets the selection even without an example.
afterHandleExampleChangeAlwaysSelects(exampleName, code, selected) ==
  LET example == findByName(exampleName)
  IN  IF "name" \in DOMAIN example
      THEN [sourceCode |-> example.code, selectedExample |-> exampleName]
      ELSE [sourceCode |-> code, selectedExample |-> exampleName]

\* handleExampleChange(exampleName) called in a state (code, selected): the
\* state after its two setters, or the same state when no example is found.
afterHandleExampleChange(exampleName, code, selected) ==
  LET example == findByName(exampleName)
  IN  IF "name" \in DOMAIN example
      THEN [sourceCode |-> example.code, selectedExample |-> exampleName]
      ELSE [sourceCode |-> code, selectedExample |-> selected]

\* afterHandleCodeChange that leaves the selection alone.
afterHandleCodeChangeKeepsSelection(newCode, observed, selected) ==
  [sourceCode |-> newCode, selectedExample |-> selected]

\* afterHandleCodeChange with the test for "Custom" the wrong way round.
afterHandleCodeChangeInvertedTest(newCode, observed, selected) ==
  LET matchingExample == findByCode(newCode)
  IN  [sourceCode |-> newCode,
       selectedExample |->
         IF "name" \in DOMAIN matchingExample THEN matchingExample.name
         ELSE IF observed = "Custom" THEN "Custom"
         ELSE selected]

\* afterHandleCodeChange that never looks for a matching example.
afterHandleCodeChangeAlwaysCustom(newCode, observed, selected) ==
  [sourceCode |-> newCode,
   selectedExample |-> IF observed # "Custom" THEN "Custom" ELSE selected]

\* handleCodeChange(newCode) of a render that saw selectedExample = observed,
\* called when the state holds selected: the state after its setters.
afterHandleCodeChange(newCode, observed, selected) ==
  LET matchingExample == findByCode(newCode)
  IN  [sourceCode |-> newCode,
       selectedExample |->
         IF "name" \in DOMAIN matchingExample THEN matchingExample.name
         ELSE IF observed # "Custom" THEN "Custom"
         ELSE selected]

(***************************************************************************)
(* App.tsx, components/CustomSelect.tsx and components/CodeEditor.tsx: the *)
(* dropdown, the editor and the App state between them                     *)
(***************************************************************************)
\* Largest position a hovered node's range reaches.
MaxPos == 3

\* The documents the user leaves in the editor: every preset's code, and
\* three short texts of their own.
EditedTexts ==
  { examples[i].code : i \in 1..Len(examples) } \cup { "", "x", " x" }

\* What ASTNodes reports through onNodeHover: null, or a node of a parsed
\* tree with its range [pos, end).
HoveredNodes ==
  { null } \cup
  UNION { { [pos |-> p, end |-> e] : e \in p..MaxPos } : p \in 0..MaxPos }

\* What the model leaves as it is in the steps of the dropdown and the
\* editor: the visualization pane.
paneVars ==
  <<ast, node, hierarchyNode, hierarchyData, root, nodes, d, texts, circles,
    removed, vizMode, parseResult, mounted, effectPending>>

\* options without the entry for "Custom".
optionsWithoutCustom(selected) ==
  [i \in 1..Len(examples) |->
     [value |-> examples[i].name, label |-> examples[i].name]]

\* App.tsx lines 104-109: the options handed to CustomSelect.
options(selected) ==
  [i \in 1..Len(examples) |->
     [value |-> examples[i].name, label |-> examples[i].name]]
  \o (IF selected = "Custom"
      THEN << [value |-> "Custom", label |-> "Custom"] >>
      ELSE << >>)

\* options.find(opt => opt.value === value)
selectedOption(opts, value) ==
  LET found == { i \in 1..Len(opts) : opts[i].value = value }
  IN  IF found = {} THEN undefined
      ELSE opts[CHOOSE i \in found : \A j \in found : i <= j]

\* selectedOption?.label || 'Select...': the text on the button.
buttonLabel(opts, value) ==
  LET opt == selectedOption(opts, value)
  IN  IF "label" \in DOMAIN opt /\ opt.label # "" THEN opt.label
      ELSE "Select..."

\* No effect of the dropdown or the editor is due: React runs the effects
\* of a render before it handles the next event.
Quiescent == ~valuePending /\ ~hoverPending /\ ~openPending

\* The button's onClick: setIsOpen(!isOpen).
ToggleMenu ==
  /\ Quiescent
  /\ isOpen' = ~isOpen
  /\ openPending' = TRUE
  /\ onChangeCalls' = << >>
  /\ event' = "click button"
  /\ UNCHANGED <<listening, sourceCode, selectedExample, editorVars, paneVars>>

\* An option's onClick: onChange(option.value), which is handleExampleChange,
\* then setIsOpen(false); the render that follows schedules the [value]
\* effect of the editor when sourceCode has changed.
ChooseOption ==
  /\ Quiescent
  /\ isOpen
  /\ \E i \in 1..Len(options(selectedExample)) :
       LET value == options(selectedExample)[i].value
           next == afterHandleExampleChange(value, sourceCode, selectedExample)
       IN  /\ onChangeCalls' = << value >>
           /\ sourceCode' = next.sourceCode
           /\ selectedExample' = next.selectedExample
           /\ valuePending' = (next.sourceCode # sourceCode)
  /\ isOpen' = FALSE
  /\ openPending' = TRUE
  /\ event' = "click option"
  /\ UNCHANGED <<listening, doc, selection, hoveredNode,
                 capturedSelectedExample, hoverPending, dispatched, paneVars>>

\* handleClickOutside that does not ask where the event happened.
closesOnAnyMouseDown(registered, inside) == registered

\* handleClickOutside is registered and the target is not inside the
\* container: the mousedown closes the menu.
closesOnMouseDown(registered, inside) == registered /\ ~inside

\* A mousedown somewhere in the document, inside the dropdown's container
\* or outside it.
MouseDown ==
  /\ Quiescent
  /\ \E inside \in BOOLEAN :
       /\ event' = IF inside THEN "mousedown inside" ELSE "mousedown outside"
       /\ IF closesOnMouseDown(listening, inside)
          THEN /\ isOpen' = FALSE
               /\ openPending' = isOpen
          ELSE UNCHANGED <<isOpen, openPending>>
  /\ onChangeCalls' = << >>
  /\ UNCHANGED <<listening, sourceCode, selectedExample, editorVars, paneVars>>

\* The [isOpen] effect without its cleanup.
listenerWithoutCleanup(registered, open) == registered \/ open

\* The [isOpen] effect: the cleanup of the previous run removes the
\* listener, the new run adds it when the menu is open.
listenerAfterEffect(registered, open) == open

\* CustomSelect's useEffect on [isOpen].
OutsideClickEffect ==
  /\ openPending
  /\ listening' = listenerAfterEffect(listening, isOpen)
  /\ openPending' = FALSE
  /\ UNCHANGED <<isOpen, onChangeCalls, event, sourceCode, selectedExample,
                 editorVars, paneVars>>

\* The user changes the document; the update listener sees docChanged and
\* calls the onChange it was created with, which is the handleCodeChange of
\* the first render.
UserEdit ==
  /\ Quiescent
  /\ \E newValue \in (EditedTexts \ {doc}) :
     \E cursor \in {0, Len(newValue)} :
       LET next == afterHandleCodeChange(newValue, capturedSelectedExample,
                                         selectedExample)
       IN  /\ doc' = newValue
           /\ selection' = [anchor |-> cursor, head |-> cursor]
           /\ sourceCode' = next.sourceCode
           /\ selectedExample' = next.selectedExample
           /\ valuePending' = (next.sourceCode # sourceCode)
  /\ UNCHANGED <<hoveredNode, capturedSelectedExample, hoverPending,
                 dispatched, selectVars, paneVars>>

\* changes: {from, to, insert} applied to a document.
replaceRange(text, from, to, insert) ==
  SubSeq(text, 1, from) \o insert \o SubSeq(text, to + 1, Len(text))

\* needsSync that is always true.
needsSyncAlways(currentValue, value) == TRUE

\* currentValue !== value
needsSync(currentValue, value) == currentValue # value

\* CodeEditor's useEffect on [value].  The dispatch replaces the document;
\* CodeMirror maps the selection through the change, to the start or the
\* end of the inserted text; the update listener then sees docChanged and
\* calls onChange with the new document.
ValueSyncEffect ==
  /\ valuePending
  /\ LET currentValue == doc
         value == sourceCode
     IN  IF needsSync(currentValue, value)
         THEN LET newValue == replaceRange(currentValue, 0, Len(currentValue), value)
                  next == afterHandleCodeChange(newValue, capturedSelectedExample,
                                                selectedExample)
              IN  /\ doc' = newValue
                  /\ \E a \in {0, Len(newValue)}, h \in {0, Len(newValue)} :
                       selection' = [anchor |-> a, head |-> h]
                  /\ dispatched' = "changes"
                  /\ sourceCode' = next.sourceCode
                  /\ selectedExample' = next.selectedExample
                  /\ valuePending' = (next.sourceCode # sourceCode)
         ELSE /\ dispatched' = "none"
              /\ valuePending' = FALSE
              /\ UNCHANGED <<doc, selection, sourceCode, selectedExample>>
  /\ UNCHANGED <<hoveredNode, capturedSelectedExample, hoverPending,
                 selectVars, paneVars>>

\* onNodeHover={setHoveredNode}: ASTNodes reports another node, or null.
setHoveredNode ==
  /\ Quiescent
  /\ \E h \in HoveredNodes \ {hoveredNode} :
       hoveredNode' = h
  /\ hoverPending' = TRUE
  /\ UNCHANGED <<doc, selection, capturedSelectedExample, valuePending,
                 dispatched, sourceCode, selectedExample, selectVars, paneVars>>

\* doc.sliceString(from, to)
sliceString(text, from, to) == SubSeq(text, from + 1, to)

\* A character that the regular expression \s matches.
isWhitespace(c) == c \in { " ", "\t", "\n", "\r", "\f" }

\* leadingWhitespace that trims nothing.
leadingWhitespaceNone(text) == 0

\* text.match(/^\s*/)?.[0].length || 0
RECURSIVE leadingWhitespace(_)
leadingWhitespace(text) ==
  IF Len(text) > 0 /\ isWhitespace(SubSeq(text, 1, 1))
  THEN 1 + leadingWhitespace(SubSeq(text, 2, Len(text)))
  ELSE 0

\* outOfBounds that lets every range through.
outOfBoundsNever(hovered, docLength) == FALSE

\* hoveredNode.pos < 0 || hoveredNode.end > docLength
outOfBounds(hovered, docLength) ==
  hovered.pos < 0 \/ hovered.end > docLength

\* CodeEditor's useEffect on [hoveredNode]; it is declared after the
\* [value] effect and runs after it.
HoverEffect ==
  /\ hoverPending
  /\ ~valuePending
  /\ IF hoveredNode # null
     THEN LET docLength == Len(doc)
          IN  IF outOfBounds(hoveredNode, docLength)
              THEN /\ dispatched' = "none"
                   /\ UNCHANGED selection
              ELSE LET text == sliceString(doc, hoveredNode.pos, hoveredNode.end)
                       trimmedStart == hoveredNode.pos + leadingWhitespace(text)
                   IN  /\ selection' = [anchor |-> trimmedStart,
                                        head |-> hoveredNode.end]
                       /\ dispatched' = "selection"
     ELSE LET currentPos == selection.head
          IN  /\ selection' = [anchor |-> currentPos, head |-> currentPos]
              /\ dispatched' = "selection"
  /\ hoverPending' = FALSE
  /\ UNCHANGED <<doc, hoveredNode, capturedSelectedExample, valuePending,
                 sourceCode, selectedExample, selectVars, paneVars>>

\* The App after its first render: the useState initial values, the editor
\* created with doc: value and the cursor at 0, the effects of the mount
\* still to run.  The visualization pane is not followed here.
InitEditor ==
  /\ sourceCode = examples[1].code
  /\ selectedExample = examples[1].name
  /\ capturedSelectedExample = selectedExample
  /\ hoveredNode = null
  /\ doc = sourceCode
  /\ selection = [anchor |-> 0, head |-> 0]
  /\ valuePending = TRUE
  /\ hoverPending = TRUE
  /\ dispatched = "none"
  /\ isOpen = FALSE
  /\ listening = FALSE
  /\ openPending = TRUE
  /\ onChangeCalls = << >>
  /\ event = "none"
  /\ vizMode = "nodes"
  /\ parseResult = undefined
  /\ mounted = "ASTNodes"
  /\ effectPending = FALSE
  /\ ast = undefined
  /\ node = undefined
  /\ hierarchyNode = undefined
  /\ hierarchyData = undefined
  /\ root = undefined
  /\ nodes = <<>>
  /\ d = undefined
  /\ texts = <<>>
  /\ circles = <<>>
  /\ removed = 0

NextEditor ==
  \/ ToggleMenu
  \/ ChooseOption
  \/ MouseDown
  \/ OutsideClickEffect
  \/ UserEdit
  \/ ValueSyncEffect
  \/ HoverEffect

SpecEditor == InitEditor /\ [][NextEditor]_vars

\* React runs every effect it has scheduled.
FairSpecEditor ==
  /\ SpecEditor
  /\ WF_vars(OutsideClickEffect)
  /\ WF_vars(ValueSyncEffect)
  /\ WF_vars(HoverEffect)

NextHover ==
  \/ UserEdit
  \/ ValueSyncEffect
  \/ OutsideClickEffect
  \/ setHoveredNode
  \/ HoverEffect

SpecHover == InitEditor /\ [][NextHover]_vars

(***************************************************************************)
(* utils/parser.ts and App.tsx: the App around the visualization           *)
(***************************************************************************)
\* examples[0].code, the text the editor starts with.
HelloWorldCode == "function greet() {\n  console.log(\"Hello, World!\");\n}"

\* The texts the editor holds in this model.
SourceTexts ==
  { HelloWorldCode, "", "x", "x + 42", "x; 42", "const x = 1 + 2" }

IdentifierNode(text) == [kind |-> Identifier, text |-> text, children |-> <<>>]
NumericLiteralNode(text) == [kind |-> NumericLiteral, text |-> text, children |-> <<>>]
StringLiteralNode(text) == [kind |-> StringLiteral, text |-> text, children |-> <<>>]
SyntaxNode(kind, children) == [kind |-> kind, children |-> children]

SourceFileOf(statements) ==
  [kind |-> SourceFile,
   statements |-> statements,
   endOfFileToken |-> SyntaxNode(EndOfFileToken, <<>>)]

\* ts.createSourceFile('temp.ts', sourceCode, Latest, true, TS) when it
\* returns: the tree of each text, children as forEachChild visits them.
createSourceFile(text) ==
  CASE text = "" -> SourceFileOf(<<>>)
    [] text = "x" ->
         SourceFileOf(<< SyntaxNode(ExpressionStatement, << IdentifierNode("x") >>) >>)
    [] text = "x + 42" ->
         SourceFileOf(<< SyntaxNode(ExpressionStatement, <<
           SyntaxNode(BinaryExpression,
             << IdentifierNode("x"), SyntaxNode(PlusToken, <<>>),
                NumericLiteralNode("42") >>) >>) >>)
    [] text = "x; 42" ->
         SourceFileOf(<< SyntaxNode(ExpressionStatement, << IdentifierNode("x") >>),
                         SyntaxNode(ExpressionStatement, << NumericLiteralNode("42") >>) >>)
    [] text = "const x = 1 + 2" ->
         SourceFileOf(<< SyntaxNode(VariableStatement, <<
           SyntaxNode(VariableDeclarationList, <<
             SyntaxNode(VariableDeclaration, <<
               IdentifierNode("x"),
               SyntaxNode(BinaryExpression,
                 << NumericLiteralNode("1"), SyntaxNode(PlusToken, <<>>),
                    NumericLiteralNode("2") >>) >>) >>) >>) >>)
    [] text = HelloWorldCode ->
         SourceFileOf(<< SyntaxNode(FunctionDeclaration, <<
           IdentifierNode("greet"),
           SyntaxNode(Block, <<
             SyntaxNode(ExpressionStatement, <<
               SyntaxNode(CallExpression, <<
                 SyntaxNode(PropertyAccessExpression,
                   << IdentifierNode("console"), IdentifierNode("log") >>),
                 StringLiteralNode("Hello, World!") >>) >>) >>) >>) >>)

\* What the call of ts.createSourceFile inside parseCode can do: return the
\* tree, throw an Error, or throw something that is not an Error.
ParserOutcomes == { "returns", "throwsError", "throwsOther" }

\* parseCode(sourceCode): the try/catch around ts.createSourceFile.
parseCode(code, outcome) ==
  CASE outcome = "returns" -> [success |-> TRUE, ast |-> createSourceFile(code)]
    [] outcome = "throwsError" ->
         [success |-> FALSE, error |-> "Maximum call stack size exceeded"]
    [] outcome = "throwsOther" ->
         [success |-> FALSE, error |-> "Unknown parsing error"]

\* mountedChild that looks at the mode only.
mountedChildIgnoringFailure(result, mode) ==
  IF mode = "nodes" THEN "ASTNodes" ELSE "RingsVisualization"

\* App.tsx lines 146-193: the child rendered in the visualization pane.
mountedChild(result, mode) ==
  IF result.success
  THEN (IF mode = "nodes" THEN "ASTNodes" ELSE "RingsVisualization")
  ELSE "ParseError"

\* The render of App with the state (code, mode): the text is parsed, the
\* pane's child is chosen; a visualization that stays mounted keeps its svg
\* and gets its effect scheduled for the new ast prop, one that is mounted
\* starts with an empty svg, one that is unmounted loses everything.
Render(code, mode, outcome) ==
  LET result == parseCode(code, outcome)
      child == mountedChild(result, mode)
  IN  /\ parseResult' = result
      /\ mounted' = child
      /\ ast' = IF result.success THEN result.ast ELSE undefined
      /\ IF child = "RingsVisualization"
         THEN /\ effectPending' = TRUE
              /\ IF mounted = "RingsVisualization"
                 THEN UNCHANGED <<hierarchyData, root, nodes, circles, removed>>
                 ELSE /\ hierarchyData' = undefined
                      /\ root' = undefined
                      /\ nodes' = <<>>
                      /\ circles' = <<>>
                      /\ removed' = 0
         ELSE /\ effectPending' = FALSE
              /\ hierarchyData' = undefined
              /\ root' = undefined
              /\ nodes' = <<>>
              /\ circles' = <<>>
              /\ removed' = 0

InitApp ==
  /\ sourceCode = examples[1].code
  /\ selectedExample = examples[1].name
  /\ capturedSelectedExample = selectedExample
  /\ NoEditor
  /\ CustomSelectMounted
  /\ vizMode = "nodes"
  /\ \E outcome \in ParserOutcomes :
       /\ parseResult = parseCode(sourceCode, outcome)
       /\ mounted = mountedChild(parseResult, vizMode)
       /\ ast = IF parseResult.success THEN parseResult.ast ELSE undefined
  /\ effectPending = FALSE
  /\ node = undefined
  /\ hierarchyNode = undefined
  /\ hierarchyData = undefined
  /\ root = undefined
  /\ nodes = <<>>
  /\ d = undefined
  /\ texts = <<>>
  /\ circles = <<>>
  /\ removed = 0

\* The editor reports a changed document: handleCodeChange and the render
\* that follows.
handleCodeChange ==
  \E newCode \in SourceTexts, outcome \in ParserOutcomes :
    LET next == afterHandleCodeChange(newCode, capturedSelectedExample,
                                      selectedExample)
    IN  /\ newCode # sourceCode
        /\ sourceCode' = next.sourceCode
        /\ selectedExample' = next.selectedExample
        /\ Render(next.sourceCode, vizMode, outcome)
        /\ UNCHANGED <<vizMode, node, hierarchyNode, d, texts,
                       editorVars, selectVars>>

\* The segmented control reports another mode: setVizMode and the render
\* that follows.
setVizMode ==
  \E mode \in {"nodes", "rings"}, outcome \in ParserOutcomes :
    /\ mode # vizMode
    /\ vizMode' = mode
    /\ Render(sourceCode, mode, outcome)
    /\ UNCHANGED <<sourceCode, node, hierarchyNode, d, texts,
                   selectedExample, editorVars, selectVars>>

NextApp == handleCodeChange \/ setVizMode \/ VisualizationEffect

SpecApp == InitApp /\ [][NextApp]_vars

(***************************************************************************)
(* Specification of the label callback, nodes.forEach((d, i) => ...)       *)
(***************************************************************************)
\* The labels the converter produces.
Labels ==
  { nodeName(t) : t \in Tokens } \cup
  { SyntaxKindName(k) : k \in ExpressionKinds \cup StatementKinds } \cup
  { "Program" }

\* Positioned nodes as the packing hands them to the callback: whole radii
\* up to half the smaller side of the packed area.
PositionedNodes ==
  { [data |-> [name |-> l], depth |-> k, r |-> rad] :
      l \in Labels, k \in 0..MaxDepth,
      rad \in 0..((height - margin * 2) \div 2) }

InitLabel ==
  /\ ast \in { sf \in SourceFiles : sf.statements = <<>> }
  /\ node = undefined
  /\ hierarchyNode = undefined
  /\ hierarchyData = undefined
  /\ root = undefined
  /\ nodes = <<>>
  /\ d \in PositionedNodes
  /\ texts = <<>>
  /\ circles = <<>>
  /\ removed = 0
  /\ sourceCode = undefined
  /\ selectedExample = undefined
  /\ capturedSelectedExample = undefined
  /\ NoEditor
  /\ CustomSelectMounted
  /\ vizMode = "rings"
  /\ parseResult = [success |-> TRUE, ast |-> ast]
  /\ mounted = "RingsVisualization"
  /\ effectPending = FALSE

\* The forEach callback called with d for the first time: a label is drawn
\* only in a circle of radius above 30.
LabelCallback ==
  LET label == d.data.name
      fontSize == getFontSize(d.depth)
  IN  /\ texts = <<>>
      /\ d.r > 30
      /\ LET arcRadius == d.r - 5
              maxChars == maxCharsOf(arcRadius, fontSize)
              truncatedLabel == truncate(label, maxChars)
          IN  texts' = Append(texts, truncatedLabel)
      /\ UNCHANGED <<ast, node, hierarchyNode, hierarchyData, root, nodes, d,
                     circles, removed, appVars,
                     selectedExample, editorVars, selectVars>>

NextLabel == LabelCallback

SpecLabel == InitLabel /\ [][NextLabel]_vars

(***************************************************************************)
(* Properties                                                              *)
(***************************************************************************)
HasChildren(h) == "children" \in DOMAIN h
ChildrenOf(h) == IF HasChildren(h) THEN h.children ELSE <<>>

RECURSIVE HierarchyNodes(_)
\* Every HierarchyNode of the hierarchy h.
HierarchyNodes(h) ==
  {h} \cup UNION { HierarchyNodes(ChildrenOf(h)[i]) : i \in 1..Len(ChildrenOf(h)) }

RECURSIVE CountTree(_)
CountTree(n) ==
  1 + SeqSum([i \in 1..Len(forEachChild(n)) |-> CountTree(forEachChild(n)[i])])

RECURSIVE CountHierarchy(_)
CountHierarchy(h) ==
  1 + SeqSum([i \in 1..Len(ChildrenOf(h)) |-> CountHierarchy(ChildrenOf(h)[i])])

RECURSIVE SameShape(_, _)
\* h has a node for every node of n: same kind, same number of children,
\* in the order forEachChild visits them.
SameShape(n, h) ==
  /\ h.syntaxKind = n.kind
  /\ Len(ChildrenOf(h)) = Len(forEachChild(n))
  /\ \A i \in 1..Len(forEachChild(n)) :
       SameShape(forEachChild(n)[i], ChildrenOf(h)[i])

NoSentinelBelow(n) ==
  \A i \in 1..Len(forEachChild(n)) :
    \A m \in SubNodes(forEachChild(n)[i]) : m.kind # EndOfFileToken

NonSentinelChildren(n) ==
  SelectSeq(forEachChild(n), LAMBDA c : c.kind # EndOfFileToken)

Called == node # undefined
Drawn == hierarchyData # undefined

\* C1: for a syntax tree with no end-of-file token below its root,
\* astToHierarchy returns a hierarchy of the same shape: as many nodes, as
\* many children at every node, in forEachChild's order.
C1_Isomorphism ==
  (Called /\ NoSentinelBelow(node)) =>
     /\ SameShape(node, hierarchyNode)
     /\ CountHierarchy(hierarchyNode) = CountTree(node)

C1_Witness ==
  /\ Called
  /\ NoSentinelBelow(node)
  /\ Len(forEachChild(node)) >= 2
  /\ CountTree(node) >= 4
  /\ \E i \in 1..Len(forEachChild(node)) : forEachChild(node)[i].kind = PlusToken

\* C2: the children of astToHierarchy(node) are the conversions of the
\* node's children that are not the end-of-file token, in their order: N
\* of them for N such children, nothing for the token, no other child lost.
C2_SentinelFiltering ==
  Called =>
    LET kept == NonSentinelChildren(node)
    IN  /\ Len(ChildrenOf(hierarchyNode)) = Len(kept)
        /\ \A i \in 1..Len(kept) :
             /\ ChildrenOf(hierarchyNode)[i] = astToHierarchy(kept[i])
             /\ ChildrenOf(hierarchyNode)[i].syntaxKind = kept[i].kind
        /\ \A h \in HierarchyNodes(hierarchyNode) :
             h.syntaxKind = EndOfFileToken => node.kind = EndOfFileToken

C2_Witness ==
  /\ Called
  /\ Len(forEachChild(node)) = Len(NonSentinelChildren(node)) + 1
  /\ Len(NonSentinelChildren(node)) >= 2
  /\ Len(hierarchyNode.children) = 2

C4_RootCollapsing ==
  (Drawn /\ Len(ast.statements) = 1) =>
     /\ hierarchyData = astToHierarchy(ast.statements[1])
     /\ hierarchyData.name # "Program"
     /\ hierarchyData.syntaxKind = ast.statements[1].kind
     /\ CountHierarchy(hierarchyData) <= CountTree(ast.statements[1])

C4_Witness ==
  /\ Drawn
  /\ Len(ast.statements) = 1
  /\ Len(ast.statements[1].children) >= 2
  /\ NoSentinelBelow(ast.statements[1])

\* C5: for a source file with no statement or with two or more,
\* astRootToHierarchy returns a root named "Program" with value 1 whose
\* children are the statements' hierarchies, one each, in statement order.
C5_ProgramRoot ==
  (Drawn /\ Len(ast.statements) # 1) =>
     /\ hierarchyData.name = "Program"
     /\ hierarchyData.value = 1
     /\ Len(hierarchyData.children) = Len(ast.statements)
     /\ \A i \in 1..Len(ast.statements) :
          /\ hierarchyData.children[i] = astToHierarchy(ast.statements[i])
          /\ hierarchyData.children[i].syntaxKind = ast.statements[i].kind

C5_Witness ==
  /\ Drawn
  /\ Len(ast.statements) >= 2
  /\ ast.statements[1] # ast.statements[2]

\* A node without children carries no children field.
LeafOmitted(h) == HasChildren(h) => Len(h.children) > 0

\* C6 as stated: in every hierarchy of astToHierarchy or astRootToHierarchy
\* a node with zero children has no children field.
C6_LeafOmissionEverywhere ==
  /\ Called => \A h \in HierarchyNodes(hierarchyNode) : LeafOmitted(h)
  /\ Drawn => \A h \in HierarchyNodes(hierarchyData) : LeafOmitted(h)

\* C6 amended: a node with zero children has no children field in every
\* hierarchy of astToHierarchy and at every node of astRootToHierarchy's
\* hierarchy below the synthetic "Program" root (at every node when the
\* single statement is the root); the synthetic root always has the field.
C6_LeafOmission ==
  /\ Called => \A h \in HierarchyNodes(hierarchyNode) : LeafOmitted(h)
  /\ (Drawn /\ Len(ast.statements) = 1) =>
        \A h \in HierarchyNodes(hierarchyData) : LeafOmitted(h)
  /\ (Drawn /\ Len(ast.statements) # 1) =>
        /\ HasChildren(hierarchyData)
        /\ \A i \in 1..Len(hierarchyData.children) :
             \A h \in HierarchyNodes(hierarchyData.children[i]) : LeafOmitted(h)

C6_Witness ==
  /\ Called
  /\ Len(forEachChild(node)) >= 1
  /\ NonSentinelChildren(node) = <<>>
  /\ ~HasChildren(hierarchyNode)

\* C7: for a source file with zero statements astRootToHierarchy returns
\* the "Program" root with a children field that is an empty array.
C7_EmptyProgram ==
  (Drawn /\ Len(ast.statements) = 0) =>
     /\ hierarchyData.name = "Program"
     /\ HasChildren(hierarchyData)
     /\ hierarchyData.children = <<>>

C7_Witness ==
  /\ Drawn
  /\ Len(ast.statements) = 0
  /\ hierarchyData.name = "Program"

RECURSIVE CountPositioned(_)
\* The nodes of the d3 hierarchy in and below n.
CountPositioned(n) ==
  1 + SeqSum([i \in 1..Len(ChildrenOf(n)) |-> CountPositioned(ChildrenOf(n)[i])])

\* C8: every HierarchyNode has value 1, and after root.sum the value of
\* every node of the layout is the number of nodes of its subtree: N at the
\* root of a hierarchy of N nodes.
C8_UnitWeights ==
  /\ Called => \A h \in HierarchyNodes(hierarchyNode) : h.value = 1
  /\ Drawn =>
       /\ \A h \in HierarchyNodes(hierarchyData) : h.value = 1
       /\ root.value = CountHierarchy(hierarchyData)
       /\ \A i \in 1..Len(nodes) : nodes[i].value = CountPositioned(nodes[i])

C8_Witness ==
  /\ Drawn
  /\ root.value >= 4
  /\ \E i \in 1..Len(nodes) : nodes[i].depth = 1 /\ nodes[i].value >= 2

\* C9: a drawn label longer than its budget maxChars is its first
\* maxChars - 2 characters followed by "...", maxChars + 1 characters in
\* all; a label of at most maxChars characters is drawn unchanged.
C9_TruncationBudget ==
  texts # <<>> =>
    LET label == d.data.name
        budget == maxCharsOf(d.r - 5, getFontSize(d.depth))
        text == texts[Len(texts)]
    IN  IF Len(label) > budget
        THEN /\ text = SubSeq(label, 1, budget - 2) \o "..."
             /\ Len(text) = budget + 1
        ELSE text = label

C9_Witness ==
  /\ texts # <<>>
  /\ d.data.name = "NumericLiteral: 42"
  /\ texts[1] = "Numeric..."

C9_WitnessUnchanged ==
  /\ texts # <<>>
  /\ texts[1] = d.data.name

\* A HierarchyNode as the interface declares it, with a label.
IsHierarchyNode(h) ==
  /\ DOMAIN h \in { {"name", "syntaxKind", "value"},
                    {"name", "syntaxKind", "value", "children"} }
  /\ Len(h.name) > 0

HasSpecialLabel(n) ==
  n.kind \in {Identifier, NumericLiteral, StringLiteral}

\* C11: astToHierarchy returns a HierarchyNode for every node of every
\* tree, never more nodes than the tree has, and a node of a kind outside
\* the three special cases is labelled with its kind name.
C11_Total ==
  /\ \A n \in SubNodes(ast) :
       /\ \A h \in HierarchyNodes(astToHierarchy(n)) : IsHierarchyNode(h)
       /\ CountHierarchy(astToHierarchy(n)) <= CountTree(n)
       /\ ~HasSpecialLabel(n) => astToHierarchy(n).name = SyntaxKindName(n.kind)
  /\ Called =>
       /\ IsHierarchyNode(hierarchyNode)
       /\ ~HasSpecialLabel(node) => hierarchyNode.name = SyntaxKindName(node.kind)

C11_Witness ==
  /\ Called
  /\ node.kind = EndOfFileToken
  /\ hierarchyNode.name = "EndOfFileToken"

\* C12: neither conversion modifies the syntax tree it reads, and a direct
\* astToHierarchy call writes nothing but its own argument and result.
C12_ReadOnly ==
  [][ /\ ast' = ast
      /\ (node' # node \/ hierarchyNode' # hierarchyNode) =>
            UNCHANGED <<hierarchyData, root, nodes, d, texts, circles, removed,
                        appVars, selectedExample, editorVars, selectVars>> ]_vars

C12_Witness ==
  /\ Called
  /\ Drawn
  /\ node = ast
  /\ Len(ast.statements) >= 2

RECURSIVE Occurrences(_, _, _)
\* How often the HierarchyNode h occurs k levels below the root of t.
Occurrences(t, h, k) ==
  IF k = 0 THEN (IF t = h THEN 1 ELSE 0)
  ELSE SeqSum([i \in 1..Len(ChildrenOf(t)) |-> Occurrences(ChildrenOf(t)[i], h, k - 1)])

\* C13: the drawn list has one entry per HierarchyNode of the hierarchy of
\* astRootToHierarchy, none missing and none twice, and one circle each.
C13_OneCirclePerNode ==
  Drawn =>
    /\ hierarchyData = astRootToHierarchy(ast)
    /\ Len(nodes) = CountHierarchy(hierarchyData)
    /\ Len(circles) = CountHierarchy(hierarchyData)
    /\ \A h \in HierarchyNodes(hierarchyData) : \A k \in 0..Len(nodes) :
         Cardinality({ i \in 1..Len(nodes) : nodes[i].data = h /\ nodes[i].depth = k })
           = Occurrences(hierarchyData, h, k)
    /\ \A i \in 1..Len(nodes) : circles[i].title = nodes[i].data.name

C13_Witness ==
  /\ Drawn
  /\ Len(circles) >= 4
  /\ \E i \in 1..Len(nodes) : nodes[i].depth = 2
  /\ \E i, j \in 1..Len(nodes) : i # j /\ nodes[i] = nodes[j]

\* C14: a hierarchy of one node without children gives exactly one circle;
\* the "Program" root of a source file without statements, whose children
\* array is empty, is such a single leaf of weight 1.
C14_SingleNode ==
  (Drawn /\ Len(ChildrenOf(hierarchyData)) = 0) =>
     /\ Len(nodes) = 1
     /\ Len(circles) = 1
     /\ circles[1].title = hierarchyData.name
     /\ ~HasChildren(root)
     /\ root.value = 1
     /\ root.depth = 0

C14_Witness ==
  /\ Drawn
  /\ ast.statements = <<>>
  /\ HasChildren(hierarchyData)
  /\ Len(circles) = 1

\* C17: the font size max(40 - 3 * depth, 24) never grows with the depth,
\* is 40 at depth 0 and never below 24; the padding of the packing is the
\* font size of depth 0, the largest there is.
C17_FontSize ==
  /\ getFontSize(0) = 40
  /\ padding = getFontSize(0)
  /\ \A depth \in 0..d.depth :
       /\ getFontSize(depth) = (IF 40 - 3 * depth > 24 THEN 40 - 3 * depth ELSE 24)
       /\ getFontSize(depth) >= 24
       /\ getFontSize(depth) <= padding
       /\ getFontSize(depth + 1) <= getFontSize(depth)

C17_Witness ==
  /\ texts # <<>>
  /\ d.depth >= 6
  /\ 40 - 3 * d.depth < 24

RECURSIVE KindsRetained(_, _)
\* Every node of h carries the kind of the tree node it was built from.
KindsRetained(n, h) ==
  /\ "syntaxKind" \in DOMAIN h
  /\ h.syntaxKind = n.kind
  /\ Len(ChildrenOf(h)) = Len(NonSentinelChildren(n))
  /\ \A i \in 1..Len(NonSentinelChildren(n)) :
       KindsRetained(NonSentinelChildren(n)[i], ChildrenOf(h)[i])

\* C18: every HierarchyNode carries the kind of the syntax-tree node it was
\* built from; the synthetic root carries the SourceFile kind.
C18_SyntaxKindRetained ==
  /\ Called => KindsRetained(node, hierarchyNode)
  /\ (Drawn /\ Len(ast.statements) = 1) =>
        KindsRetained(ast.statements[1], hierarchyData)
  /\ (Drawn /\ Len(ast.statements) # 1) =>
        /\ hierarchyData.syntaxKind = SourceFile
        /\ hierarchyData.syntaxKind = 312
        /\ \A i \in 1..Len(ast.statements) :
             KindsRetained(ast.statements[i], hierarchyData.children[i])

C18_Witness ==
  /\ Called
  /\ Drawn
  /\ Len(ast.statements) = 2
  /\ node.kind = ExpressionStatement
  /\ \E i \in 1..Len(node.children) :
       /\ node.children[i].kind = BinaryExpression
       /\ hierarchyNode.children[i].syntaxKind = 226

\* C15: parseCode returns {success: true, ast} or {success: false, error}
\* whatever the parser does; a visualization is mounted, and a hierarchy
\* built, only for success = true, and for success = false the pane shows
\* the parse error and nothing of a hierarchy exists.
C15_OnlySuccessIsVisualized ==
  /\ DOMAIN parseResult \in { {"success", "ast"}, {"success", "error"} }
  /\ parseResult.success <=> "ast" \in DOMAIN parseResult
  /\ parseResult.success => parseResult.ast = createSourceFile(sourceCode)
  /\ ~parseResult.success => Len(parseResult.error) > 0
  /\ mounted \in {"ASTNodes", "RingsVisualization"} => parseResult.success
  /\ (effectPending \/ hierarchyData # undefined \/ circles # <<>>) =>
        parseResult.success
  /\ ~parseResult.success =>
        /\ mounted = "ParseError"
        /\ ~effectPending
        /\ hierarchyData = undefined
        /\ circles = <<>>

C15_Witness ==
  /\ ~parseResult.success
  /\ parseResult.error = "Unknown parsing error"
  /\ vizMode = "rings"
  /\ mounted = "ParseError"

\* The circles are those of the hierarchy of the current ast.
CirclesOfCurrentAst ==
  LET h == astRootToHierarchy(ast)
  IN  /\ hierarchyData = h
      /\ Len(circles) = CountHierarchy(h)
      /\ \A n \in HierarchyNodes(h) :
           \E i \in 1..Len(circles) : circles[i].title = n.name
      /\ circles[1].title = h.name

\* C16: every run of the effect for a new ast prop first removes all that
\* was drawn and rebuilds the hierarchy, so that once the effect has run the
\* circles are exactly those of the hierarchy of the latest ast.
C16_RedrawnFromScratch ==
  /\ []((mounted = "RingsVisualization" /\ ~effectPending) => CirclesOfCurrentAst)
  /\ [][(effectPending /\ ~effectPending' /\ mounted' = "RingsVisualization") =>
          /\ removed' = Len(circles)
          /\ hierarchyData' = astRootToHierarchy(ast)
          /\ Len(circles') = CountHierarchy(hierarchyData')]_vars

C16_Witness ==
  /\ mounted = "RingsVisualization"
  /\ ~effectPending
  /\ removed > 0
  /\ Len(circles) # removed
  /\ sourceCode = "x; 42"

\* C19 as stated: for "const x = 1 + 2" the hierarchy has the top label
\* "VariableStatement", a binary-expression node labelled with its kind
\* name below, and the leaves "NumericLiteral: 1" and "NumericLiteral: 2".
C19_ConstExample ==
  (sourceCode = "const x = 1 + 2" /\ mounted = "RingsVisualization" /\ ~effectPending) =>
     /\ hierarchyData.name = "VariableStatement"
     /\ \E b \in HierarchyNodes(hierarchyData) :
          /\ b.syntaxKind = BinaryExpression
          /\ b.name = "BinaryExpression"
          /\ \E i, j \in 1..Len(ChildrenOf(b)) :
               /\ i < j
               /\ b.children[i] = [name |-> "NumericLiteral: 1",
                                   syntaxKind |-> NumericLiteral, value |-> 1]
               /\ b.children[j] = [name |-> "NumericLiteral: 2",
                                   syntaxKind |-> NumericLiteral, value |-> 1]

(***************************************************************************)
(* The App state, the dropdown and the editor                              *)
(***************************************************************************)
\* The first example of the list whose code is c is the i-th.
FirstWithCode(c, i) ==
  /\ examples[i].code = c
  /\ \A j \in 1..(i - 1) : examples[j].code # c

\* The selection handleCodeChange(c) must leave.
ExpectedSelection(c, selected) ==
  /\ \A i \in 1..Len(examples) : FirstWithCode(c, i) => selected = examples[i].name
  /\ (\A i \in 1..Len(examples) : examples[i].code # c) => selected = "Custom"

\* C21: handleCodeChange(newCode) sets sourceCode to newCode and
\* selectedExample to the name of the first example with that code, or to
\* "Custom" when there is none; this for every text in every state, and in
\* every step in which the editor reports a user's change.
C21_CodeChange ==
  /\ [](\A c \in EditedTexts :
          LET next == afterHandleCodeChange(c, selectedExample, selectedExample)
          IN  /\ next.sourceCode = c
              /\ ExpectedSelection(c, next.selectedExample))
  /\ [][UserEdit => /\ sourceCode' = doc'
                    /\ ExpectedSelection(doc', selectedExample')]_vars

C21_Witness ==
  /\ selectedExample = "Custom"
  /\ sourceCode = "x"
  /\ doc = "x"
  /\ event = "click option"

\* The values an option of the dropdown can carry.
OptionValues == { examples[i].name : i \in 1..Len(examples) } \cup { "Custom" }

\* What handleExampleChange(name) must leave of a state (code, selected).
ExpectedAfterExample(name, code, selected, after) ==
  IF \E i \in 1..Len(examples) : examples[i].name = name
  THEN /\ after.selectedExample = name
       /\ \E i \in 1..Len(examples) :
            /\ examples[i].name = name
            /\ \A j \in 1..(i - 1) : examples[j].name # name
            /\ after.sourceCode = examples[i].code
  ELSE /\ after.sourceCode = code
       /\ after.selectedExample = selected

\* C22: handleExampleChange(name) sets sourceCode to the code of the example
\* of that name and selectedExample to name, both in one step, and changes
\* neither when no example has the name; this for every option value in
\* every state, and in every step in which an option is chosen.
C22_ExampleChange ==
  /\ [](\A name \in OptionValues :
          ExpectedAfterExample(name, sourceCode, selectedExample,
            afterHandleExampleChange(name, sourceCode, selectedExample)))
  /\ [][ChooseOption =>
          ExpectedAfterExample(onChangeCalls'[1], sourceCode, selectedExample,
            [sourceCode |-> sourceCode', selectedExample |-> selectedExample'])]_vars

C22_Witness ==
  /\ event = "click option"
  /\ onChangeCalls = << "Custom" >>
  /\ selectedExample = "Custom"
  /\ sourceCode = " x"

\* C23: in every reachable state of the App, a selectedExample other than
\* "Custom" names an example whose code is sourceCode, and selectedExample
\* is "Custom" only when sourceCode is no example's code.
C23_SelectionConsistent ==
  /\ selectedExample # "Custom" =>
       \E i \in 1..Len(examples) :
         /\ examples[i].name = selectedExample
         /\ \A j \in 1..Len(examples) :
              examples[j].name = selectedExample => examples[j].code = sourceCode
  /\ selectedExample = "Custom" =>
       \A i \in 1..Len(examples) : examples[i].code # sourceCode

C23_Witness ==
  /\ selectedExample = examples[2].name
  /\ sourceCode = examples[2].code
  /\ doc = sourceCode
  /\ dispatched = "none"
  /\ event = "mousedown outside"
  /\ Quiescent

\* The user has just picked the i-th example in the dropdown: the option's
\* click is the last event and the effects of its render are still due.
JustPicked(i) ==
  /\ event = "click option"
  /\ onChangeCalls = << examples[i].name >>
  /\ openPending

\* The App, the editor and the dropdown agree on the i-th example and
\* nothing is left to run.
SettledOn(i) ==
  /\ Quiescent
  /\ sourceCode = examples[i].code
  /\ doc = examples[i].code
  /\ selectedExample = examples[i].name

\* C24: after the user picks example E the effects lead to a state with no
\* effect due in which sourceCode and the document are E's code and E is
\* selected; the handleCodeChange call that the document replacement
\* triggers changes no state and schedules no further run.
C24_PickSettles ==
  /\ \A i \in 1..Len(examples) : JustPicked(i) ~> SettledOn(i)
  /\ [][ValueSyncEffect => /\ UNCHANGED <<sourceCode, selectedExample>>
                           /\ ~valuePending'
                           /\ doc' = sourceCode]_vars

C24_Witness ==
  /\ SettledOn(3)
  /\ event = "click option"
  /\ onChangeCalls = << examples[3].name >>
  /\ dispatched = "changes"

\* The document after one run of the [value] effect with the prop value.
DocAfterSync(current, value) ==
  IF needsSync(current, value)
  THEN replaceRange(current, 0, Len(current), value)
  ELSE current

\* C25: the [value] effect dispatches a replacement of the whole document
\* exactly when the document differs from value and dispatches nothing
\* otherwise; afterwards the document equals value, and a second run with
\* the same value finds nothing to do.
C25_ValueSync ==
  /\ [](\A value \in EditedTexts :
          /\ DocAfterSync(doc, value) = value
          /\ ~needsSync(DocAfterSync(doc, value), value)
          /\ DocAfterSync(DocAfterSync(doc, value), value) = DocAfterSync(doc, value))
  /\ [][ValueSyncEffect =>
          /\ doc # sourceCode => dispatched' = "changes"
          /\ doc = sourceCode => dispatched' = "none" /\ UNCHANGED <<doc, selection>>
          /\ doc' = sourceCode]_vars

C25_Witness ==
  /\ dispatched = "changes"
  /\ ~valuePending
  /\ sourceCode = examples[4].code
  /\ doc = examples[4].code

\* C26: handleCodeChange(c) leaves the same state whatever selectedExample
\* its render saw, so the handler the editor's listener was created with
\* (that of the first render) leaves the state that the handler of the
\* current render would; this for every text in every state, and in every
\* step in which the listener reports a user's change.
C26_StaleHandlerAgrees ==
  /\ [](\A c \in EditedTexts :
          /\ afterHandleCodeChange(c, capturedSelectedExample, selectedExample)
               = afterHandleCodeChange(c, selectedExample, selectedExample)
          /\ \A seen \in OptionValues :
               afterHandleCodeChange(c, seen, seen)
                 = afterHandleCodeChange(c, capturedSelectedExample, selectedExample))
  /\ [][UserEdit =>
          [sourceCode |-> sourceCode', selectedExample |-> selectedExample']
            = afterHandleCodeChange(doc', selectedExample, selectedExample)]_vars

C26_Witness ==
  /\ Quiescent
  /\ event = "click option"
  /\ onChangeCalls = << examples[2].name >>
  /\ capturedSelectedExample = examples[1].name
  /\ selectedExample = "Custom"
  /\ doc = " x"

\* The values of the options of a render, as a set.
ValuesOf(opts) == { opts[i].value : i \in 1..Len(opts) }

\* C27: in every reachable state the options handed to the dropdown are the
\* example names, with "Custom" among them exactly when "Custom" is
\* selected, the selected value is one of them, and the button shows its
\* label, never the placeholder "Select...".
C27_SelectedIsAnOption ==
  LET opts == options(selectedExample)
  IN  /\ selectedExample \in ValuesOf(opts)
      /\ \A i \in 1..Len(examples) : examples[i].name \in ValuesOf(opts)
      /\ ValuesOf(opts) \subseteq OptionValues
      /\ ("Custom" \in ValuesOf(opts)) <=> (selectedExample = "Custom")
      /\ buttonLabel(opts, selectedExample) = selectedExample
      /\ buttonLabel(opts, selectedExample) # "Select..."

C27_Witness ==
  /\ selectedExample = "Custom"
  /\ isOpen
  /\ listening
  /\ buttonLabel(options(selectedExample), selectedExample) = "Custom"

\* k is the number of whitespace characters the text starts with.
IsLeadingWhitespaceCount(text, k) ==
  /\ k \in 0..Len(text)
  /\ \A i \in 1..k : SubSeq(text, i, i) \in { " ", "\t", "\n", "\r", "\f" }
  /\ k < Len(text) => SubSeq(text, k + 1, k + 1) \notin { " ", "\t", "\n", "\r", "\f" }

\* A position of the document.
InDocument(p) == p \in 0..Len(doc)

C29_OpenCloseProtocol ==
  /\ [][ToggleMenu => /\ isOpen' = ~isOpen
                      /\ onChangeCalls' = << >>
                      /\ UNCHANGED <<sourceCode, selectedExample>>]_vars
  /\ [][ChooseOption => /\ Len(onChangeCalls') = 1
                        /\ onChangeCalls'[1] \in ValuesOf(options(selectedExample))
                        /\ ~isOpen']_vars
  /\ [][MouseDown /\ event' = "mousedown outside" /\ isOpen =>
          /\ ~isOpen'
          /\ onChangeCalls' = << >>
          /\ UNCHANGED <<sourceCode, selectedExample>>]_vars
  /\ [][MouseDown /\ event' = "mousedown inside" =>
          /\ isOpen' = isOpen
          /\ onChangeCalls' = << >>]_vars
  /\ [](~openPending => (listening <=> isOpen))

C29_Witness ==
  /\ Quiescent
  /\ event = "mousedown outside"
  /\ ~isOpen
  /\ ~listening
  /\ selectedExample = examples[2].name
  /\ dispatched = "changes"

====
